---- MODULE Spec2Model ----
(***************************************************************************)
(* The `with!` macro of with-macro (src/src/lib.rs), modelled as the       *)
(* rewriting system the compiler runs: an invocation is a token sequence,  *)
(* the seven macro_rules arms are tried in order on it, every expansion    *)
(* step gets a fresh hygiene context, and the expanded block is then       *)
(* executed statement by statement on the objects the tests use (Foo, Vec).*)
(***************************************************************************)
EXTENDS Naturals, Integers, Sequences, FiniteSets, TLC

(***************************************************************************)
(* Bounds of the model.                                                    *)
(***************************************************************************)
\* longest clause list drawn from the clause catalogue
MaxClauses == 2

(***************************************************************************)
(* Tokens.  k is the token kind, v its payload (a name, a number, or for a *)
(* delimited group the token sequence inside), c the hygiene context of an *)
(* identifier: 0 for tokens written at the call site, n > 0 for tokens     *)
(* written in the body of the macro and produced by expansion n.           *)
(***************************************************************************)
Tok(k, v) == [k |-> k, v |-> v, c |-> 0]
Id(n) == Tok("id", n)
IdC(n, ctx) == [k |-> "id", v |-> n, c |-> ctx]
Lit(n) == Tok("lit", n)
Paren(s) == Tok("paren", s)
Brace(s) == Tok("brace", s)
Dot == Tok("dot", ".")
Eq == Tok("eq", "=")
Semi == Tok("semi", ";")
Comma == Tok("comma", ",")
Arrow == Tok("arrow", "=>")
Bang == Tok("bang", "!")
At == Tok("at", "@")
Minus == Tok("minus", "-")
Colon2 == Tok("colon2", "::")
NoTok == Tok("none", "")

Is(s, i, k) == i >= 1 /\ i <= Len(s) /\ s[i].k = k
IsWord(s, i, w) == Is(s, i, "id") /\ s[i].v = w
From(s, i) == SubSeq(s, i, Len(s))

\* the words the expression and pattern parsers refuse as a name
Keywords == {"let", "mut"}

\* $x:ident matches any identifier token, keywords included, except `_`
IsIdentFrag(s, i) == Is(s, i, "id") /\ s[i].v # "_"
\* a name usable in an expression: an identifier that is no keyword
IsName(s, i) == Is(s, i, "id") /\ s[i].v \notin Keywords /\ s[i].v # "_"

(***************************************************************************)
(* The compiler's fragment parsers, as far as the macro's matchers use     *)
(* them.  ExprLen(s) is the number of leading tokens of s that the         *)
(* expression parser takes ($x:expr is greedy), 0 when s does not start    *)
(* with an expression.  A group is one token, so parentheses are balanced  *)
(* by construction and a `;` or `,` inside a group is never seen here.     *)
(***************************************************************************)
RECURSIVE ExprLen(_), UnaryLen(_), PostfixLen(_, _), PathLen(_, _), ListOK(_, _)

\* the rest of a comma-separated list whose first expression takes n tokens
ListRest(s, n, trailing) ==
    IF n = 0 THEN FALSE
    ELSE IF n = Len(s) THEN TRUE
    ELSE IF ~Is(s, n + 1, "comma") THEN FALSE
    ELSE IF n + 1 = Len(s) THEN trailing
    ELSE ListOK(From(s, n + 2), trailing)

\* a comma-separated list of expressions filling s; trailing comma by flag
ListOK(s, trailing) == IF s = <<>> THEN TRUE ELSE ListRest(s, ExprLen(s), trailing)

\* a path a::b::c starting at s[1]; n tokens are taken so far
PathLen(s, n) ==
    IF Is(s, n + 1, "colon2") /\ IsName(s, n + 2) THEN PathLen(s, n + 2) ELSE n

\* .field, .method(args) and (args) suffixes after the n tokens taken so far
PostfixLen(s, n) ==
    IF Is(s, n + 1, "dot") /\ IsName(s, n + 2)
    THEN IF Is(s, n + 3, "paren")
         THEN IF ListOK(s[n + 3].v, TRUE) THEN PostfixLen(s, n + 3) ELSE 0
         ELSE PostfixLen(s, n + 2)
    ELSE IF Is(s, n + 1, "paren")
    THEN IF ListOK(s[n + 1].v, TRUE) THEN PostfixLen(s, n + 1) ELSE 0
    ELSE n

\* a macro call name!(...) or name!{...} after the path of p tokens, or the path
AfterPath(s, p) ==
    IF Is(s, p + 1, "bang") /\ (Is(s, p + 2, "paren") \/ Is(s, p + 2, "brace"))
    THEN p + 2 ELSE p

\* n more tokens after the first i, none when the n are none
Plus(i, n) == IF n = 0 THEN 0 ELSE i + n

UnaryLen(s) ==
    IF s = <<>> THEN 0
    ELSE IF Is(s, 1, "minus") THEN Plus(1, UnaryLen(Tail(s)))
    ELSE IF Is(s, 1, "lit") \/ Is(s, 1, "paren") \/ IsName(s, 1)
    THEN IF Is(s, 1, "paren") /\ ~ListOK(s[1].v, TRUE) THEN 0
         ELSE PostfixLen(s, IF IsName(s, 1) THEN AfterPath(s, PathLen(s, 1)) ELSE 1)
    ELSE 0

\* an assignment u = expr after the u tokens of its left side, or the u tokens
AssignLen(s, u) ==
    IF u = 0 THEN 0
    ELSE IF Is(s, u + 1, "eq") THEN Plus(u + 1, ExprLen(From(s, u + 2)))
    ELSE u

ExprLen(s) == AssignLen(s, UnaryLen(s))

\* $x:pat, as far as the call sites use patterns: a name or `_`
PatLen(s) == IF Is(s, 1, "id") /\ s[1].v \notin Keywords THEN 1 ELSE 0

\* the arguments $($args:expr),* of a group: each argument's tokens, in order
RECURSIVE SplitArgs(_)
SplitFirst(s, n) ==
    IF n = Len(s) THEN <<s>> ELSE <<SubSeq(s, 1, n)>> \o SplitArgs(From(s, n + 2))
SplitArgs(s) == IF s = <<>> THEN <<>> ELSE SplitFirst(s, ExprLen(s))

\* $($args:expr),* matches the whole group: no trailing comma is allowed
ArgsMatch(g) == ListOK(g, FALSE)

(***************************************************************************)
(* The macro.  Each arm of macro_rules! with is a matcher on the tokens of *)
(* an invocation (Match...) and a transcriber (the ...Stmt operators and   *)
(* ParseCall).  Captures keep the names the source gives them.  A parse    *)
(* error inside a fragment aborts the expansion where a plain mismatch     *)
(* moves on to the next arm; for these seven arms no later arm matches an  *)
(* input on which an earlier fragment parse fails, so both end in the same *)
(* compile error and the matcher reports a failed fragment as no match.    *)
(***************************************************************************)
\* the name the body of the macro writes for its recursive calls
SelfName == "with"

\* a statement of the expanded code: a template of the macro with its holes filled
Stmt(kind, mutable, var, recv, method, args, toks) ==
    [kind |-> kind, mutable |-> mutable, var |-> var, recv |-> recv,
     method |-> method, args |-> args, toks |-> toks]

\* mut expr => ...
\* the n > 0 tokens of a fragment that starts at inp[i] are followed by a k token
Then(inp, i, n, k) == n > 0 /\ Is(inp, i + n, k)

MatchEntryMut(inp) ==
    /\ IsWord(inp, 1, "mut")
    /\ Then(inp, 2, ExprLen(Tail(inp)), "arrow")
EntryMutObj(inp) == SubSeq(inp, 2, ExprLen(Tail(inp)) + 1)
EntryMutBody(inp) == From(inp, ExprLen(Tail(inp)) + 3)

\* expr => ...
MatchEntry(inp) == Then(inp, 1, ExprLen(inp), "arrow")
EntryObj(inp) == SubSeq(inp, 1, ExprLen(inp))
EntryBody(inp) == From(inp, ExprLen(inp) + 2)

\* the prefix `@parse $obj:ident` of the five internal arms
IsParse(inp) == Is(inp, 1, "at") /\ IsWord(inp, 2, "parse") /\ IsIdentFrag(inp, 3)

\* termination rule
MatchTermination(inp) == IsParse(inp) /\ Len(inp) = 3

\* .method(args..)
MatchMethod(inp) ==
    /\ IsParse(inp)
    /\ Is(inp, 4, "dot")
    /\ IsIdentFrag(inp, 5)
    /\ Is(inp, 6, "paren")
    /\ ArgsMatch(inp[6].v)

\* the let arm written without the `.` before the method
MatchLetNoDot(inp) ==
    /\ IsParse(inp)
    /\ IsWord(inp, 4, "let")
    /\ PatLen(From(inp, 5)) = 1
    /\ Is(inp, 6, "eq")
    /\ IsIdentFrag(inp, 7)
    /\ Is(inp, 8, "paren")
    /\ ArgsMatch(inp[8].v)
    /\ Is(inp, 9, "semi")

\* let pat = .method(args..);
MatchLet(inp) ==
    /\ IsParse(inp)
    /\ IsWord(inp, 4, "let")
    /\ PatLen(From(inp, 5)) = 1
    /\ Is(inp, 6, "eq")
    /\ Is(inp, 7, "dot")
    /\ IsIdentFrag(inp, 8)
    /\ Is(inp, 9, "paren")
    /\ ArgsMatch(inp[9].v)
    /\ Is(inp, 10, "semi")

\* var = .method(args..);
MatchAssign(inp) ==
    /\ IsParse(inp)
    /\ IsIdentFrag(inp, 4)
    /\ Is(inp, 5, "eq")
    /\ Is(inp, 6, "dot")
    /\ IsIdentFrag(inp, 7)
    /\ Is(inp, 8, "paren")
    /\ ArgsMatch(inp[8].v)
    /\ Is(inp, 9, "semi")

\* arbitrary expression
MatchExpr(inp) ==
    /\ IsParse(inp)
    /\ Then(inp, 4, ExprLen(From(inp, 4)), "semi")

\* macro_rules tries the arms in the order the macro lists them and takes the
\* first that matches; "none": no rules expected the token
FirstRule(inp) ==
    IF MatchEntryMut(inp) THEN "EntryMut"
    ELSE IF MatchEntry(inp) THEN "Entry"
    ELSE IF MatchTermination(inp) THEN "Termination"
    ELSE IF MatchMethod(inp) THEN "Method"
    ELSE IF MatchLet(inp) THEN "Let"
    ELSE IF MatchAssign(inp) THEN "Assign"
    ELSE IF MatchExpr(inp) THEN "Expr"
    ELSE "none"

\* a method arm whose tail starts one clause too late
MethodTailSkip(inp) == From(inp, 10)
\* an assignment arm that leaves its `;` to the recursive call
AssignTailKeepsSemi(inp) == From(inp, 9)
\* a passthrough arm that loses the last token of the expression
ExprExpShort(inp) == SubSeq(inp, 4, ExprLen(From(inp, 4)) + 2)

\* the tokens left for the recursive call, $($tail:tt)*
MethodTail(inp) == From(inp, 7)
LetTail(inp) == From(inp, 11)
AssignTail(inp) == From(inp, 10)
ExprExp(inp) == SubSeq(inp, 4, ExprLen(From(inp, 4)) + 3)
ExprTail(inp) == From(inp, ExprLen(From(inp, 4)) + 5)

\* a binding name without hygiene: the same identifier in every expansion, and one
\* the call site can write
BindingUnhygienic(ctx) == IdC("obj", 0)

\* the name `obj` the entry arms write: it is written in the body of the macro, so
\* it carries the hygiene context of the expansion that writes it
Binding(ctx) == IdC("obj", ctx)
\* let mut obj = $obj;
EntryMutDecl(ctx, obj) == Stmt("decl", TRUE, Binding(ctx), NoTok, "", <<>>, obj)
\* the immutable entry arm declaring its binding `mut`
EntryDeclMut(ctx, obj) == Stmt("decl", TRUE, IdC("obj", ctx), NoTok, "", <<>>, obj)
\* let obj = $obj;
EntryDecl(ctx, obj) == Stmt("decl", FALSE, Binding(ctx), NoTok, "", <<>>, obj)
\* the trailing `obj` that is the value of the block
EntryResult(ctx) == Binding(ctx)
\* a recursive call that forgets the remaining tokens: with!(@parse $obj)
ParseCallNoTail(obj, tail) == [name |-> "with", toks |-> <<At, Id("parse"), obj>>]
\* with!(@parse obj $($body)*) and with!(@parse $obj $($tail)*)
ParseCall(obj, tail) == [name |-> SelfName, toks |-> <<At, Id("parse"), obj>> \o tail]
\* a method arm that writes `obj` itself instead of $obj: an identifier of a later
\* expansion, which is not the binding
MethodStmtLiteral(obj, method, args) ==
    Stmt("call", FALSE, NoTok, IdC("obj", obj.c + 1), method.v, SplitArgs(args), <<>>)
\* $obj.$method($($args),*);
MethodStmt(obj, method, args) ==
    Stmt("call", FALSE, NoTok, obj, method.v, SplitArgs(args), <<>>)
\* a let arm that calls the method and drops the capture
LetStmtNoCapture(obj, var, method, args) ==
    Stmt("call", FALSE, NoTok, obj, method.v, SplitArgs(args), <<>>)
\* let $var = $obj.$method($($args),*);
LetStmt(obj, var, method, args) ==
    Stmt("let", FALSE, var, obj, method.v, SplitArgs(args), <<>>)
\* $var = $obj.$method($($args),*);
AssignStmt(obj, var, method, args) ==
    Stmt("assign", FALSE, var, obj, method.v, SplitArgs(args), <<>>)
\* $exp;
ExprStmt(exp) == Stmt("expr", FALSE, NoTok, NoTok, "", <<>>, exp)

(***************************************************************************)
(* The objects of the tests and the meaning of the expanded statements.    *)
(* A value is an i32, a Foo (a Cell<i32>), a Vec or the unit value.        *)
(***************************************************************************)
IntV(n) == [t |-> "int", n |-> n, items |-> <<>>]
FooV(n) == [t |-> "foo", n |-> n, items |-> <<>>]
VecV(items) == [t |-> "vec", n |-> 0, items |-> items]
UnitV == [t |-> "unit", n |-> 0, items |-> <<>>]
UninitV == [t |-> "uninit", n |-> 0, items |-> <<>>]

\* the result of a method call: the object afterwards, the value returned, and
\* whether the method takes &mut self
MRes(ok, obj, ret, needsMut) == [ok |-> ok, obj |-> obj, ret |-> ret, needsMut |-> needsMut]
NoMethod == MRes(FALSE, UnitV, UnitV, FALSE)

\* impl Foo: get_val, set_val, add, mul, all on &self.  The i32 of the inputs
\* stays far from its limits (at most 42, in tests::basic), so no sum or product
\* overflows.
FooMethod(val, method, argv) ==
    IF method = "get_val" /\ Len(argv) = 0
    THEN MRes(TRUE, val, IntV(val.n), FALSE)
    ELSE IF Len(argv) = 1 /\ argv[1].t = "int"
    THEN CASE method = "set_val" -> MRes(TRUE, FooV(argv[1].n), UnitV, FALSE)
           [] method = "add" -> MRes(TRUE, FooV(val.n + argv[1].n), UnitV, FALSE)
           [] method = "mul" -> MRes(TRUE, FooV(val.n * argv[1].n), UnitV, FALSE)
           [] OTHER -> NoMethod
    ELSE NoMethod

\* the Vec methods the tests and the documentation call
VecMethod(val, method, argv) ==
    CASE method = "push" /\ Len(argv) = 1 ->
            MRes(TRUE, VecV(Append(val.items, argv[1])), UnitV, TRUE)
      [] method = "len" /\ Len(argv) = 0 ->
            MRes(TRUE, val, IntV(Len(val.items)), FALSE)
      [] method = "insert" /\ Len(argv) = 2 /\ argv[1] = IntV(0) ->
            MRes(TRUE, VecV(<<argv[2]>> \o val.items), UnitV, TRUE)
      [] OTHER -> NoMethod

ApplyMethod(val, method, argv) ==
    CASE val.t = "foo" -> FooMethod(val, method, argv)
      [] val.t = "vec" -> VecMethod(val, method, argv)
      [] OTHER -> NoMethod

(***************************************************************************)
(* Scopes.  The run keeps a stack of frames, one per block being executed  *)
(* (the call site at the bottom); a frame's locals are its bindings in the *)
(* order declared.  A name resolves to the latest binding of the same name *)
(* and the same hygiene context in the innermost frame that has one.       *)
(***************************************************************************)
SameIdent(x, y) == x.k = "id" /\ y.k = "id" /\ x.v = y.v /\ x.c = y.c
HasBinding(locals, tok) == \E i \in 1..Len(locals) : SameIdent(locals[i].id, tok)
LastIdx(locals, tok) ==
    CHOOSE i \in 1..Len(locals) :
        /\ SameIdent(locals[i].id, tok)
        /\ \A j \in (i + 1)..Len(locals) : ~SameIdent(locals[j].id, tok)
Resolves(st, tok) == \E f \in 1..Len(st) : HasBinding(st[f].locals, tok)
FrameOf(st, tok) ==
    CHOOSE f \in 1..Len(st) :
        /\ HasBinding(st[f].locals, tok)
        /\ \A g \in (f + 1)..Len(st) : ~HasBinding(st[g].locals, tok)
GetIn(locals, tok) == locals[LastIdx(locals, tok)]
GetVar(st, tok) == GetIn(st[FrameOf(st, tok)].locals, tok)
SetIn(st, f, tok, val) == [st EXCEPT ![f].locals[LastIdx(st[f].locals, tok)].val = val]
SetVar(st, tok, val) == SetIn(st, FrameOf(st, tok), tok, val)
Bind(st, tok, val, mutable) ==
    [st EXCEPT ![Len(st)].locals =
         Append(@, [id |-> tok, val |-> val, mutable |-> mutable])]

\* an expanded invocation leaves a reference to its block where it stood
BlockRef(b) == Tok("block", b)
IsBlockRef(e) == Len(e) = 1 /\ e[1].k = "block"

ERes(ok, val) == [ok |-> ok, val |-> val]
RECURSIVE EvalExpr(_, _)
\* Foo::new(a)
NewFoo(a) ==
    IF a.ok /\ a.val.t = "int" THEN ERes(TRUE, FooV(a.val.n)) ELSE ERes(FALSE, UnitV)
\* a variable that holds b
Read(b) == IF b.val.t # "uninit" THEN ERes(TRUE, b.val) ELSE ERes(FALSE, UnitV)
IsNew(e, type) ==
    /\ Len(e) = 4 /\ IsWord(e, 1, type) /\ Is(e, 2, "colon2")
    /\ IsWord(e, 3, "new") /\ Is(e, 4, "paren")
\* the value of an expression of the call site, for the expressions the tests write
EvalExpr(e, st) ==
    IF Len(e) = 1 /\ e[1].k = "lit" THEN ERes(TRUE, IntV(e[1].v))
    ELSE IF Len(e) = 2 /\ e[1].k = "minus" /\ e[2].k = "lit"
    THEN ERes(TRUE, IntV(0 - e[2].v))
    ELSE IF Len(e) = 1 /\ e[1].k = "paren" /\ Len(e[1].v) > 0
                       /\ ExprLen(e[1].v) = Len(e[1].v)
    THEN EvalExpr(e[1].v, st)
    ELSE IF Len(e) = 1 /\ IsName(e, 1)
    THEN IF Resolves(st, e[1]) THEN Read(GetVar(st, e[1])) ELSE ERes(FALSE, UnitV)
    ELSE IF IsNew(e, "Foo") THEN NewFoo(EvalExpr(e[4].v, st))
    ELSE IF IsNew(e, "Vec") /\ e[4].v = <<>> THEN ERes(TRUE, VecV(<<>>))
    ELSE ERes(FALSE, UnitV)

\* the arguments of a call, left to right; an argument that is a block takes the
\* next of the values `hold` that its block produced
RECURSIVE EvalArgs(_, _, _)
EvalArgs(args, st, hold) ==
    IF args = <<>> THEN <<>>
    ELSE IF IsBlockRef(Head(args))
    THEN IF hold = <<>> THEN <<ERes(FALSE, UnitV)>>
         ELSE <<ERes(TRUE, Head(hold))>> \o EvalArgs(Tail(args), st, Tail(hold))
    ELSE <<EvalExpr(Head(args), st)>> \o EvalArgs(Tail(args), st, hold)

AllOk(rs) == \A i \in 1..Len(rs) : rs[i].ok
Vals(rs) == [i \in 1..Len(rs) |-> rs[i].val]
BlockArgs(stmt) == {i \in 1..Len(stmt.args) : IsBlockRef(stmt.args[i])}

\* what executing one statement does: the stack afterwards, or a compile error of
\* the expanded code (status "error"), or a failed assertion (status "panic")
Out(status, st, why) == [status |-> status, st |-> st, why |-> why]

\* the capture of a let or assignment statement, after the call left stack st1
Captured(stmt, st, st1, ret) ==
    CASE stmt.kind = "call" -> Out("ok", st1, "")
      [] stmt.kind = "let" -> Out("ok", Bind(st1, stmt.var, ret, FALSE), "")
      [] stmt.kind = "assign" ->
            IF Resolves(st1, stmt.var) /\ GetVar(st1, stmt.var).mutable
            THEN Out("ok", SetVar(st1, stmt.var, ret), "")
            ELSE Out("error", st, "cannot assign")

\* the call of the statement gave m on the receiver's binding b
Called(stmt, st, b, m) ==
    IF ~m.ok THEN Out("error", st, "no method")
    ELSE IF m.needsMut /\ ~b.mutable THEN Out("error", st, "cannot borrow as mutable")
    ELSE Captured(stmt, st, SetVar(st, stmt.recv, m.obj), m.ret)

\* the arguments of the statement evaluated to rs
WithArgs(stmt, st, b, rs) ==
    IF ~AllOk(rs) THEN Out("error", st, "bad argument")
    ELSE Called(stmt, st, b, ApplyMethod(b.val, stmt.method, Vals(rs)))

ExecCallLike(stmt, st, hold) ==
    IF ~Resolves(st, stmt.recv) THEN Out("error", st, "cannot find value")
    ELSE WithArgs(stmt, st, GetVar(st, stmt.recv), EvalArgs(stmt.args, st, hold))

\* assert_eq!(l, r) on the values of its two arguments
Asserted(st, l, r) ==
    IF ~l.ok \/ ~r.ok THEN Out("error", st, "bad assert")
    ELSE IF l.val = r.val THEN Out("ok", st, "")
    ELSE Out("panic", st, "assertion failed")

AssertArgs(st, args) ==
    IF Len(args) # 2 THEN Out("error", st, "bad assert")
    ELSE Asserted(st, EvalExpr(args[1], st), EvalExpr(args[2], st))

\* name = value
Assigned(st, tok, r) ==
    IF r.ok /\ Resolves(st, tok) /\ GetVar(st, tok).mutable
    THEN Out("ok", SetVar(st, tok, r.val), "")
    ELSE Out("error", st, "bad assignment")

ExecExpr(e, st) ==
    IF Len(e) = 3 /\ IsWord(e, 1, "assert_eq") /\ Is(e, 2, "bang") /\ Is(e, 3, "paren")
    THEN IF ~ArgsMatch(e[3].v) THEN Out("error", st, "bad assert")
         ELSE AssertArgs(st, SplitArgs(e[3].v))
    ELSE IF Len(e) >= 3 /\ IsName(e, 1) /\ Is(e, 2, "eq")
    THEN Assigned(st, e[1], EvalExpr(From(e, 3), st))
    ELSE IF EvalExpr(e, st).ok THEN Out("ok", st, "")
    ELSE Out("error", st, "bad expression")

Declared(stmt, st, r) ==
    IF r.ok THEN Out("ok", Bind(st, stmt.var, r.val, stmt.mutable), "")
    ELSE Out("error", st, "bad initializer")

ExecStmt(stmt, st, hold) ==
    CASE stmt.kind = "decl" -> Declared(stmt, st, EvalExpr(stmt.toks, st))
      [] stmt.kind \in {"call", "let", "assign"} -> ExecCallLike(stmt, st, hold)
      [] stmt.kind = "expr" -> ExecExpr(stmt.toks, st)

(***************************************************************************)
(* Inputs: the invocations of the tests, and every clause list of at most  *)
(* MaxClauses clauses drawn from a catalogue holding each clause shape.    *)
(* A clause records its shape and, for a call, the method and the argument *)
(* values meant; the expander sees only the tokens.                        *)
(***************************************************************************)
Clause(shape, var, method, argv, toks) ==
    [shape |-> shape, var |-> var, method |-> method, argv |-> argv, toks |-> toks]
CallC(method, args, argv) ==
    Clause("call", "", method, argv, <<Dot, Id(method), Paren(args)>>)
LetC(var, method) ==
    Clause("let", var, method, <<>>,
           <<Id("let"), Id(var), Eq, Dot, Id(method), Paren(<<>>), Semi>>)
AssignC(var, method) ==
    Clause("assign", var, method, <<>>,
           <<Id(var), Eq, Dot, Id(method), Paren(<<>>), Semi>>)
ExprC(toks) == Clause("expr", "", "", <<>>, toks \o <<Semi>>)
AssertEq(var, n) == <<Id("assert_eq"), Bang, Paren(<<Id(var), Comma, Lit(n)>>)>>

FooNew(n) == <<Id("Foo"), Colon2, Id("new"), Paren(<<Lit(n)>>)>>
VecNew == <<Id("Vec"), Colon2, Id("new"), Paren(<<>>)>>

RECURSIVE Flatten(_)
Flatten(cl) == IF cl = <<>> THEN <<>> ELSE Head(cl).toks \o Flatten(Tail(cl))

Program(name, mutable, init, clauses) ==
    [name |-> name, mutable |-> mutable, init |-> init, clauses |-> clauses]
\* the tokens between the braces of the invocation
ProgToks(p) ==
    (IF p.mutable THEN <<Id("mut")>> ELSE <<>>) \o p.init \o <<Arrow>> \o Flatten(p.clauses)
Invocation(inv, p) == <<Id(inv), Bang, Brace(ProgToks(p))>>

\* with!{ Foo::new(3) => }
InnerEmpty(inv) == Invocation(inv, Program("inner", FALSE, FooNew(3), <<>>))
\* with!{ Foo::new(0) => .set_val(10) .add(3) }
InnerCalls(inv) ==
    Invocation(inv, Program("inner", FALSE, FooNew(0),
        <<CallC("set_val", <<Lit(10)>>, <<IntV(10)>>),
          CallC("add", <<Lit(3)>>, <<IntV(3)>>)>>))

\* tests::basic
Basic ==
    Program("basic", FALSE, FooNew(0),
        <<CallC("set_val", <<Lit(10)>>, <<IntV(10)>>),
          CallC("mul", <<Lit(2)>>, <<IntV(2)>>),
          AssignC("a", "get_val"),
          CallC("add", <<Lit(1)>>, <<IntV(1)>>),
          LetC("n", "get_val"),
          ExprC(AssertEq("n", 21)),
          CallC("mul", <<Lit(2)>>, <<IntV(2)>>)>>)
\* tests::mutable and the example of the module documentation
Mutable ==
    Program("mutable", TRUE, VecNew,
        <<CallC("push", <<Lit(1)>>, <<IntV(1)>>),
          CallC("push", <<Lit(42)>>, <<IntV(42)>>),
          CallC("push", <<Minus, Lit(13)>>, <<IntV(0 - 13)>>),
          LetC("l", "len"),
          ExprC(AssertEq("l", 3))>>)
\* tests::nested
Nested(inv) ==
    Program("nested", TRUE, VecNew,
        <<CallC("push", InnerEmpty(inv), <<FooV(3)>>),
          CallC("push", InnerCalls(inv), <<FooV(13)>>)>>)
\* tests/tests.rs macro_name
MacroName ==
    Program("macro_name", TRUE, VecNew,
        <<CallC("push", <<Lit(42)>>, <<IntV(42)>>),
          CallC("push", <<Lit(13)>>, <<IntV(13)>>)>>)
TestPrograms(inv) == {Basic, Mutable, Nested(inv), MacroName}

\* one clause of every shape, well formed and not
Catalogue(inv) ==
    << CallC("add", <<Lit(1)>>, <<IntV(1)>>),
       CallC("mul", <<Paren(<<Lit(2)>>)>>, <<IntV(2)>>),
       CallC("set_val", <<Lit(10)>>, <<IntV(10)>>),
       CallC("insert", <<Lit(0), Comma, Lit(7)>>, <<IntV(0), IntV(7)>>),
       CallC("push", InnerCalls(inv), <<FooV(13)>>),
       AssignC("a", "get_val"),
       LetC("n", "get_val"),
       ExprC(AssertEq("n", 10)),
       ExprC(<<Id("a"), Eq, Lit(5)>>),
       \* a statement that is no expression: let x = 5;
       Clause("stmt", "x", "", <<>>, <<Id("let"), Id("x"), Eq, Lit(5), Semi>>),
       \* a capture without its terminator: a = .get_val()
       Clause("bad", "a", "get_val", <<>>,
              <<Id("a"), Eq, Dot, Id("get_val"), Paren(<<>>)>>),
       \* a call whose argument list ends in a comma: .insert(0, 7,)
       Clause("trailing", "", "insert", <<IntV(0), IntV(7)>>,
              <<Dot, Id("insert"), Paren(<<Lit(0), Comma, Lit(7), Comma>>)>>) >>

ClauseLists(inv) ==
    UNION {{[i \in 1..n |-> Catalogue(inv)[f[i]]] : f \in [1..n -> 1..Len(Catalogue(inv))]}
           : n \in 0..MaxClauses}
Programs(inv) ==
    TestPrograms(inv) \cup
    {Program("gen", m, e, cl) : m \in BOOLEAN, e \in {FooNew(0), VecNew},
                                cl \in ClauseLists(inv)}

\* a call site: the name the macro is invoked by and the names bound to it there.
\* In the crate and under `use with_macro::with` the macro is `with`;
\* under `use with_macro::with as with_renamed` only `with_renamed` is.
Sites == {[inv |-> "with", scope |-> {"with"}],
          [inv |-> "with_renamed", scope |-> {"with_renamed"}]}
MacroNames == {"with", "with_renamed"}

(***************************************************************************)
(* State.                                                                  *)
(*   site     the call site                                                *)
(*   prog     the invocation written there                                 *)
(*   root     the expression at the call site: the invocation, then a      *)
(*            reference to the block it expanded to                        *)
(*   blocks   the blocks produced by the entry arms: the statements        *)
(*            emitted so far, the trailing result expression, and the      *)
(*            pending recursive invocation with!(@parse ...)               *)
(*   todo     the invocations still to expand, the next one first (the     *)
(*            compiler expands depth first, in source order): <<0, 0, 0>>  *)
(*            is the call site's, <<b, j, k>> the k-th argument of         *)
(*            statement j of block b, <<b, 0, 0>> block b's pending one    *)
(*   nextCtx  the hygiene context of the next expansion                    *)
(*   pc       "expand", "run", "done", "error" (rejected at compile time), *)
(*            "panic"                                                      *)
(*   err      why the compiler rejected the invocation                     *)
(*   stack    the frames of the run                                        *)
(*   captures the values the capture statements stored, in order           *)
(*   result   the value of the invocation                                  *)
(***************************************************************************)
VARIABLES site, prog, root, blocks, todo, nextCtx, pc, err, stack, captures, result
vars == <<site, prog, root, blocks, todo, nextCtx, pc, err, stack, captures, result>>

Init ==
    /\ site \in Sites
    /\ prog \in Programs(site.inv)
    /\ root = Invocation(site.inv, prog)
    /\ blocks = <<>>
    /\ todo = << <<0, 0, 0>> >>
    /\ nextCtx = 1
    /\ pc = "expand"
    /\ err = ""
    /\ stack = <<>>
    /\ captures = <<>>
    /\ result = UnitV

\* an invocation of the macro written by the user, in expression position
IsInvocation(e) ==
    /\ Len(e) = 3
    /\ Is(e, 1, "id") /\ e[1].v \in MacroNames
    /\ Is(e, 2, "bang")
    /\ Is(e, 3, "brace")

Block(res, stmts, pend) == [res |-> res, stmts |-> stmts, pend |-> pend]
NoPend == [name |-> "", toks |-> <<>>]

\* the invocation expanded next: its macro name and its tokens
Cur == Head(todo)
IsUser(l) == l[1] = 0 \/ l[2] > 0
InvAt(l) == IF l[1] = 0 THEN root ELSE blocks[l[1]].stmts[l[2]].args[l[3]]
CurName == IF IsUser(Cur) THEN InvAt(Cur)[1].v ELSE blocks[Cur[1]].pend.name
CurToks == IF IsUser(Cur) THEN InvAt(Cur)[3].v ELSE blocks[Cur[1]].pend.toks

\* the next invocation resolves to the macro and its first matching arm is rule
Expanding(rule) ==
    /\ pc = "expand"
    /\ todo # <<>>
    /\ CurName \in site.scope
    /\ FirstRule(CurToks) = rule

\* the invocations among the arguments of statement j of block b, leftmost first
RECURSIVE InvsFrom(_, _, _, _)
InvsFrom(b, j, args, k) ==
    IF k > Len(args) THEN <<>>
    ELSE (IF IsInvocation(args[k]) THEN << <<b, j, k>> >> ELSE <<>>)
         \o InvsFrom(b, j, args, k + 1)

\* the user's invocation Cur becomes the block blk
Expanded(blk) ==
    /\ IsUser(Cur)
    /\ root' = IF Cur[1] = 0 THEN <<BlockRef(Len(blocks) + 1)>> ELSE root
    /\ blocks' = Append(IF Cur[1] = 0 THEN blocks
                        ELSE [blocks EXCEPT ![Cur[1]].stmts[Cur[2]].args[Cur[3]] =
                                  <<BlockRef(Len(blocks) + 1)>>],
                        blk)
    /\ todo' = << <<Len(blocks) + 1, 0, 0>> >> \o Tail(todo)
    /\ nextCtx' = nextCtx + 1
    /\ UNCHANGED <<site, prog, pc, err, stack, captures, result>>

\* (mut $obj:expr => $($body:tt)*)
EntryMut ==
    /\ Expanding("EntryMut")
    /\ Expanded(Block(EntryResult(nextCtx),
                      <<EntryMutDecl(nextCtx, EntryMutObj(CurToks))>>,
                      ParseCall(Binding(nextCtx), EntryMutBody(CurToks))))

\* ($obj:expr => $($body:tt)*)
Entry ==
    /\ Expanding("Entry")
    /\ Expanded(Block(EntryResult(nextCtx),
                      <<EntryDecl(nextCtx, EntryObj(CurToks))>>,
                      ParseCall(Binding(nextCtx), EntryBody(CurToks))))

\* the pending invocation of a block emits stmt and the next pending invocation
Emitted(stmt, pend) ==
    /\ ~IsUser(Cur)
    /\ LET b == Cur[1] IN
       /\ blocks' = [blocks EXCEPT ![b].stmts = Append(@, stmt), ![b].pend = pend]
       /\ todo' = InvsFrom(b, Len(blocks[b].stmts) + 1, stmt.args, 1) \o todo
    /\ nextCtx' = nextCtx + 1
    /\ UNCHANGED <<site, prog, root, pc, err, stack, captures, result>>

\* (@parse $obj:ident) => ()
Termination ==
    /\ Expanding("Termination")
    /\ ~IsUser(Cur)
    /\ blocks' = [blocks EXCEPT ![Cur[1]].pend = NoPend]
    /\ todo' = Tail(todo)
    /\ nextCtx' = nextCtx + 1
    /\ UNCHANGED <<site, prog, root, pc, err, stack, captures, result>>

\* (@parse $obj:ident . $method:ident ( $($args:expr),* ) $($tail:tt)*)
Method ==
    /\ Expanding("Method")
    /\ LET inp == CurToks IN
       Emitted(MethodStmt(inp[3], inp[5], inp[6].v), ParseCall(inp[3], MethodTail(inp)))

\* (@parse $obj:ident let $var:pat = . $method:ident ( $($args:expr),* ) ; $($tail:tt)*)
Let ==
    /\ Expanding("Let")
    /\ LET inp == CurToks IN
       Emitted(LetStmt(inp[3], inp[5], inp[8], inp[9].v), ParseCall(inp[3], LetTail(inp)))

\* (@parse $obj:ident $var:ident = . $method:ident ( $($args:expr),* ) ; $($tail:tt)*)
Assign ==
    /\ Expanding("Assign")
    /\ LET inp == CurToks IN
       Emitted(AssignStmt(inp[3], inp[4], inp[7], inp[8].v),
               ParseCall(inp[3], AssignTail(inp)))

\* (@parse $obj:ident $exp:expr ; $($tail:tt)*)
Expr ==
    /\ Expanding("Expr")
    /\ LET inp == CurToks IN
       Emitted(ExprStmt(ExprExp(inp)), ParseCall(inp[3], ExprTail(inp)))

Rejected(why) ==
    /\ pc' = "error"
    /\ err' = why
    /\ UNCHANGED <<site, prog, root, blocks, todo, nextCtx, stack, captures, result>>

\* the invocation names a macro that is not in scope where the invocation stands:
\* the names a macro_rules body writes for macros are looked up at the call site
Unresolved ==
    /\ pc = "expand"
    /\ todo # <<>>
    /\ CurName \notin site.scope
    /\ Rejected("cannot find macro in this scope")

\* no arm matches the tokens of the invocation
NoRule ==
    /\ Expanding("none")
    /\ Rejected("no rules expected the token")

(***************************************************************************)
(* The run of the expanded code.  The compiler's checks of the expanded    *)
(* code (names, methods, mutability) are made where the statement is       *)
(* reached, and end in "error" like a failed expansion.                    *)
(***************************************************************************)
Frame(blk) == [blk |-> blk, idx |-> 1, locals |-> <<>>, hold |-> <<>>]
\* the call site of the tests declares `a` before the invocation
CallSite == [blk |-> 0, idx |-> 1, hold |-> <<>>,
             locals |-> <<[id |-> Id("a"), val |-> UninitV, mutable |-> TRUE]>>]
Top == stack[Len(stack)]
AtStmt == Top.blk > 0 /\ Top.idx <= Len(blocks[Top.blk].stmts)
CurStmt == blocks[Top.blk].stmts[Top.idx]
\* the block arguments of the current statement not yet evaluated
NextBlockArg ==
    CHOOSE i \in BlockArgs(CurStmt) :
        Cardinality({j \in BlockArgs(CurStmt) : j < i}) = Len(Top.hold)

\* every invocation is expanded: the expanded code is compiled and started
Compiled ==
    /\ pc = "expand"
    /\ todo = <<>>
    /\ pc' = "run"
    /\ stack' = <<CallSite>>
    /\ UNCHANGED <<site, prog, root, blocks, todo, nextCtx, err, captures, result>>

\* evaluation reaches a block: the call site's, or an argument of the statement
EnterBlock ==
    /\ pc = "run"
    /\ \/ /\ Top.blk = 0 /\ Top.hold = <<>>
          /\ stack' = Append(stack, Frame(root[1].v))
       \/ /\ AtStmt /\ Len(Top.hold) < Cardinality(BlockArgs(CurStmt))
          /\ stack' = Append(stack, Frame(CurStmt.args[NextBlockArg][1].v))
    /\ UNCHANGED <<site, prog, root, blocks, todo, nextCtx, pc, err, captures, result>>

\* the statements of a block are done: its value is its trailing expression
ExitBlock ==
    /\ pc = "run"
    /\ Top.blk > 0 /\ ~AtStmt
    /\ Resolves(stack, blocks[Top.blk].res)
    /\ stack' = [SubSeq(stack, 1, Len(stack) - 1) EXCEPT ![Len(stack) - 1].hold =
                     Append(@, GetVar(stack, blocks[Top.blk].res).val)]
    /\ UNCHANGED <<site, prog, root, blocks, todo, nextCtx, pc, err, captures, result>>

Ready == pc = "run" /\ AtStmt /\ Len(Top.hold) = Cardinality(BlockArgs(CurStmt))

\* the statement ran and left outcome o: the frame moves on, a capture is logged
Ran(o) ==
    /\ o.status = "ok"
    /\ stack' = [o.st EXCEPT ![Len(stack)].idx = @ + 1, ![Len(stack)].hold = <<>>]
    /\ captures' = IF CurStmt.kind \in {"let", "assign"}
                   THEN Append(captures, [blk |-> Top.blk, idx |-> Top.idx,
                                          var |-> CurStmt.var.v,
                                          val |-> GetVar(o.st, CurStmt.var).val])
                   ELSE captures
    /\ UNCHANGED <<site, prog, root, blocks, todo, nextCtx, pc, err, result>>

\* one statement of the expanded code
Exec == Ready /\ Ran(ExecStmt(CurStmt, stack, Top.hold))

\* what the compiler finds wrong where the run stands: in the statement reached,
\* or in the trailing expression of the block
Refusal(o) ==
    IF AtStmt
    THEN IF Len(Top.hold) = Cardinality(BlockArgs(CurStmt)) /\ o.status = "error"
         THEN o.why ELSE ""
    ELSE IF ~Resolves(stack, blocks[Top.blk].res) THEN "cannot find value" ELSE ""
Refused(why) == why # "" /\ Rejected(why)

\* the compiler rejects the expanded code
Reject ==
    /\ pc = "run"
    /\ Top.blk > 0
    /\ Refused(Refusal(IF AtStmt THEN ExecStmt(CurStmt, stack, Top.hold)
                       ELSE Out("ok", stack, "")))

\* an assertion of the call site fails
Panic ==
    /\ Ready
    /\ ExecStmt(CurStmt, stack, Top.hold).status = "panic"
    /\ pc' = "panic"
    /\ UNCHANGED <<site, prog, root, blocks, todo, nextCtx, err, stack, captures, result>>

\* the block of the call site has produced the value of the invocation
Return ==
    /\ pc = "run"
    /\ Top.blk = 0 /\ Top.hold # <<>>
    /\ result' = Top.hold[1]
    /\ pc' = "done"
    /\ UNCHANGED <<site, prog, root, blocks, todo, nextCtx, err, stack, captures>>

Next ==
    \/ EntryMut
    \/ Entry
    \/ Termination
    \/ Method
    \/ Let
    \/ Assign
    \/ Expr
    \/ Unresolved
    \/ NoRule
    \/ Compiled
    \/ EnterBlock
    \/ ExitBlock
    \/ Exec
    \/ Reject
    \/ Panic
    \/ Return

Spec == Init /\ [][Next]_vars

(***************************************************************************)
(* What the specification says, stated on the clause list the invocation   *)
(* was written from.  The expander never reads these definitions.          *)
(***************************************************************************)
NClauses == Len(prog.clauses)
Started == Len(blocks) >= 1
\* the block of the call site's invocation, its statements and its binding
Outer == blocks[1]
OuterStmts == blocks[1].stmts
OuterBinding == blocks[1].stmts[1].var
\* the expander accepted the invocation: nothing is left to expand
Accepted == todo = <<>>
Finished == pc \in {"done", "error", "panic"}
NoRuleError == pc = "error" /\ err = "no rules expected the token"

\* the kind of statement the rule of a clause of this shape emits
KindOf(shape) ==
    CASE shape = "call" -> "call"
      [] shape = "let" -> "let"
      [] shape = "assign" -> "assign"
      [] OTHER -> "expr"

\* statement st is the rewrite of clause c
ProducedFrom(st, c) ==
    /\ st.kind = KindOf(c.shape)
    /\ c.shape \in {"call", "let", "assign"} =>
          /\ st.method = c.method
          /\ Len(st.args) = Len(c.argv)
          /\ c.shape # "call" => st.var = Id(c.var)
    /\ c.shape = "expr" => st.toks \o <<Semi>> = c.toks

\* the object after the effects of the first i clauses, and what the call of
\* clause i returns, by the methods of the object alone
InitVal(init) == IF init = VecNew THEN VecV(<<>>) ELSE FooV(init[4].v[1].v)
RECURSIVE RefObj(_, _)
RefObj(p, i) ==
    IF i = 0 THEN InitVal(p.init)
    ELSE IF p.clauses[i].shape \in {"call", "let", "assign"}
    THEN ApplyMethod(RefObj(p, i - 1), p.clauses[i].method, p.clauses[i].argv).obj
    ELSE RefObj(p, i - 1)
RefRet(p, i) ==
    ApplyMethod(RefObj(p, i - 1), p.clauses[i].method, p.clauses[i].argv).ret

\* C1: the statements after the binding declaration are the rewrites of the
\* clauses in the input order, at every step of the expansion, and once the
\* expander has accepted the list there is exactly one per clause: none is
\* dropped, duplicated or moved.
C1_OrderPreserved ==
    Started =>
        /\ Len(OuterStmts) <= NClauses + 1
        /\ \A j \in 2..Len(OuterStmts) : ProducedFrom(OuterStmts[j], prog.clauses[j - 1])
        /\ Accepted => Len(OuterStmts) = NClauses + 1
C1_Witness ==
    /\ pc = "done"
    /\ NClauses >= 2
    /\ prog.clauses[1] # prog.clauses[2]
    /\ Len(OuterStmts) = NClauses + 1

\* C2: an invocation under a renamed import expands and behaves as under the
\* name `with`: tests/tests.rs macro_name, with only with_renamed in scope, ends
\* with the vector [42, 13].
C2_AliasExpands ==
    (site.inv = "with_renamed" /\ prog = MacroName /\ Finished) =>
        (pc = "done" /\ result = VecV(<<IntV(42), IntV(13)>>))

\* the clause shapes of the invocation syntax as the specification gives them (the
\* fourth: any other complete statement terminated by `;`) and as the macro takes
\* them (the fourth: any other expression terminated by `;`)
FourShapesOfSpec == {"call", "let", "assign", "expr", "stmt"}
FourShapes == {"call", "let", "assign", "expr"}
AllOf(shapes) == \A i \in 1..NClauses : prog.clauses[i].shape \in shapes

\* C3 as the specification states it: no clause list made of the four shapes,
\* the fourth being any complete statement, makes the rules reject the invocation.
C3_TotalOverStatements == AllOf(FourShapesOfSpec) => ~NoRuleError

\* C3, amended: when every clause is a bare call (its arguments separated by
\* commas, none trailing), a let-capture, an assignment-capture or an expression
\* terminated by `;`, every invocation the
\* expansion makes matches an arm and an accepted list has one statement per
\* clause; the rules reject exactly the lists holding a clause of another shape.
C3_TotalOverExpressions ==
    /\ AllOf(FourShapes) =>
          /\ ~NoRuleError
          /\ (pc = "expand" /\ todo # <<>> /\ CurName \in site.scope)
                => FirstRule(CurToks) # "none"
          /\ Accepted => Len(OuterStmts) = NClauses + 1
    /\ ~AllOf(FourShapes) => ~Accepted
    /\ (~AllOf(FourShapes) /\ Finished /\ site.inv = SelfName) => NoRuleError
C3_Witness ==
    /\ pc = "done"
    /\ NClauses >= 2
    /\ \E i \in 1..NClauses : prog.clauses[i].shape = "expr"
    /\ \E i \in 1..NClauses : prog.clauses[i].shape = "let"

\* C4: every block declares its binding once, as its first statement, from the
\* initializing expression, and every call, let-capture and assignment-capture
\* statement of the block calls its method on that binding, which is also the
\* value of the block and the identifier handed to the pending recursive call.
SingleBinding(b) ==
    LET ss == blocks[b].stmts IN
    /\ ss[1].kind = "decl"
    /\ \A j \in 2..Len(ss) : ss[j].kind # "decl"
    /\ \A j \in 2..Len(ss) :
          ss[j].kind \in {"call", "let", "assign"} => SameIdent(ss[j].recv, ss[1].var)
    /\ SameIdent(blocks[b].res, ss[1].var)
    /\ blocks[b].pend # NoPend => SameIdent(blocks[b].pend.toks[3], ss[1].var)
C4_SingleBinding ==
    /\ \A b \in 1..Len(blocks) : SingleBinding(b)
    /\ Started => OuterStmts[1].toks = prog.init
C4_Witness ==
    /\ pc = "done"
    /\ \E j \in 2..Len(OuterStmts) : OuterStmts[j].kind = "call"
    /\ \E j \in 2..Len(OuterStmts) : OuterStmts[j].kind = "let"
    /\ \E j \in 2..Len(OuterStmts) : OuterStmts[j].kind = "assign"

\* C5: the capture of clause i stores what the method returns on the object as
\* clauses 1..i-1 left it; tests::basic captures a = 20 and n = 21 and ends with
\* Foo(42).
C5_CaptureSeesPrefix ==
    /\ \A k \in 1..Len(captures) :
          captures[k].blk = 1 =>
             /\ captures[k].idx - 1 \in 1..NClauses
             /\ prog.clauses[captures[k].idx - 1].shape \in {"let", "assign"}
             /\ captures[k].var = prog.clauses[captures[k].idx - 1].var
             /\ captures[k].val = RefRet(prog, captures[k].idx - 1)
    /\ (prog = Basic /\ Accepted) => pc # "panic" /\ pc # "error"
    /\ (prog = Basic /\ pc = "done") =>
          /\ Len(captures) = 2
          /\ captures[1].var = "a" /\ captures[1].val = IntV(20)
          /\ captures[2].var = "n" /\ captures[2].val = IntV(21)
          /\ GetVar(stack, Id("a")).val = IntV(20)
          /\ result = FooV(42)
C5_Witness == prog = Basic /\ pc = "done" /\ Len(captures) = 2

\* C6: the value of the invocation is the binding after all clause statements:
\* the initial object with the effects of all clauses, and for an empty clause
\* list the declaration is the only statement and the value is the initial one.
C6_ValueIsBinding ==
    /\ pc = "done" => result = RefObj(prog, NClauses)
    /\ (NClauses = 0 /\ Accepted) => Len(OuterStmts) = 1
    /\ (NClauses = 0 /\ pc = "done") => result = InitVal(prog.init)
C6_Witness == NClauses = 0 /\ pc = "done" /\ result = InitVal(prog.init)

\* C7: every expansion has a binding of its own: the bindings of two blocks are
\* different identifiers, none is an identifier the call site can write, every
\* rewritten clause of a block calls on the binding of that block, and
\* tests::nested ends with [Foo(3), Foo(13)], the inner clauses having gone to
\* the inner block.
BindingOf(b) == blocks[b].stmts[1].var
C7_NestingIndependent ==
    /\ \A b \in 1..Len(blocks) :
          /\ BindingOf(b).c # 0
          /\ \A d \in 1..Len(blocks) : d # b => ~SameIdent(BindingOf(b), BindingOf(d))
          /\ \A j \in 2..Len(blocks[b].stmts) :
                blocks[b].stmts[j].kind = "call"
                   => SameIdent(blocks[b].stmts[j].recv, BindingOf(b))
    /\ (prog.name = "nested" /\ Accepted) =>
          /\ Len(blocks) = 3
          /\ Len(blocks[1].stmts) = 3
          /\ Len(blocks[2].stmts) = 1
          /\ Len(blocks[3].stmts) = 3
          /\ blocks[3].stmts[2].method = "set_val"
          /\ blocks[3].stmts[3].method = "add"
    /\ (prog.name = "nested" /\ pc = "done") => result = VecV(<<FooV(3), FooV(13)>>)
    /\ (prog.name = "nested" /\ Accepted) => pc # "error"
C7_Witness ==
    /\ prog.name = "nested" /\ pc = "done"
    /\ result.items[2] = FooV(13)

\* C8: the statement of a passthrough clause is the clause's own tokens, all of
\* them and in order, without the trailing `;`; it has no receiver, method or
\* arguments put into it.
C8_PassthroughVerbatim ==
    Started =>
       \A j \in 2..Len(OuterStmts) :
          (j - 1 <= NClauses /\ prog.clauses[j - 1].shape = "expr") =>
             /\ OuterStmts[j].kind = "expr"
             /\ OuterStmts[j].toks = SubSeq(prog.clauses[j - 1].toks, 1,
                                            Len(prog.clauses[j - 1].toks) - 1)
             /\ OuterStmts[j].recv = NoTok
             /\ OuterStmts[j].var = NoTok
             /\ OuterStmts[j].args = <<>>
C8_Witness ==
    /\ pc = "done"
    /\ \E j \in 2..Len(OuterStmts) :
          OuterStmts[j].kind = "expr" /\ Len(OuterStmts[j].toks) = 3

\* C9: the declaration is mutable exactly when the invocation starts with `mut`,
\* and without `mut` the call and capture clauses are rewritten by their rules
\* onto the binding all the same.
C9_MutabilityThreaded ==
    Started =>
       /\ OuterStmts[1].kind = "decl"
       /\ OuterStmts[1].mutable = prog.mutable
       /\ ~prog.mutable =>
             \A j \in 2..Len(OuterStmts) :
                prog.clauses[j - 1].shape \in {"call", "let", "assign"} =>
                   /\ ProducedFrom(OuterStmts[j], prog.clauses[j - 1])
                   /\ SameIdent(OuterStmts[j].recv, OuterBinding)
C9_Witness ==
    /\ ~prog.mutable /\ pc = "done"
    /\ ~OuterStmts[1].mutable
    /\ \E j \in 2..Len(OuterStmts) : OuterStmts[j].kind = "let"
    /\ \E j \in 2..Len(OuterStmts) : OuterStmts[j].kind = "assign"

\* C10: each step consumes the tokens of exactly one clause (what is left for the
\* recursive call is the tokens of the clauses not yet rewritten), and a
\* call-shaped or capture-shaped clause is rewritten by its own rule with all of
\* its arguments, never by the passthrough rule.
SimpleArgs(st, c) ==
    \A k \in 1..Len(st.args) :
        IsBlockRef(st.args[k]) \/ IsInvocation(st.args[k])
           \/ EvalExpr(st.args[k], <<>>) = ERes(TRUE, c.argv[k])
C10_OwnRuleExactSpan ==
    Started =>
       /\ Outer.pend # NoPend =>
             /\ Len(OuterStmts) <= NClauses + 1
             /\ Outer.pend.toks = <<At, Id("parse"), OuterBinding>> \o
                   Flatten(SubSeq(prog.clauses, Len(OuterStmts), NClauses))
       /\ \A j \in 2..Len(OuterStmts) :
             prog.clauses[j - 1].shape \in {"call", "let", "assign"} =>
                /\ OuterStmts[j].kind = prog.clauses[j - 1].shape
                /\ OuterStmts[j].method = prog.clauses[j - 1].method
                /\ Len(OuterStmts[j].args) = Len(prog.clauses[j - 1].argv)
                /\ SimpleArgs(OuterStmts[j], prog.clauses[j - 1])
C10_Witness ==
    /\ pc = "expand"
    /\ Started
    /\ Len(OuterStmts) = 2
    /\ OuterStmts[2].kind = "call" /\ Len(OuterStmts[2].args) = 2
    /\ Len(Outer.pend.toks) > 3
    /\ prog.clauses[2].shape = "expr"

====
